---- MODULE Spec2Model ----
(***************************************************************************)
(* RC Tank License Server (src/server.py): the licenses table and the      *)
(* request handlers activate, validate, admin_generate, admin_revoke,      *)
(* admin_renew, admin_unbind and admin_list.                               *)
(*                                                                         *)
(* Every handler runs on a connection of its own (get_db), in sqlite3's    *)
(* default mode: a SELECT runs outside any transaction, an INSERT/UPDATE   *)
(* opens one that db.commit() ends.  A handler that SELECTs and later      *)
(* UPDATEs (activate, admin_renew) is therefore two atomic steps, and      *)
(* other requests may run between them.  A handler with one statement, or  *)
(* with one transaction (admin_generate), is one atomic step.              *)
(*                                                                         *)
(* Requests are served by the worker processes of Procs: pc[p] is the      *)
(* place of worker p in its handler, frame[p] the handler's locals that    *)
(* are live between its statements.  The workers are interchangeable: a    *)
(* new request goes to the free worker of lowest number, and a handler of  *)
(* one step needs a free worker but leaves no trace in pc and frame.       *)
(* resp is the response the last step sent, or                             *)
(* NoResp when the last step sent none (the clock advanced, or a handler   *)
(* went on from its SELECT to its UPDATE).                                 *)
(*                                                                         *)
(* Time is in seconds, the wall clock advances in steps of a day.  Inputs   *)
(* are the JSON fields after data.get and, in activate and validate,       *)
(* after strip().  The id column, the date strings of the responses        *)
(* (strftime) and the admin secret check (require_admin) are left out.     *)
(***************************************************************************)
EXTENDS Integers, Sequences, FiniteSets, TLC

VARIABLES licenses, clock, pc, frame, resp

vars == <<licenses, clock, pc, frame, resp>>

----------------------------------------------------------------------------
(* Bounds of the model *)

MaxTicks == 2
MaxDays == 1
MaxCount == 1
MaxExtendDays == 3
MaxSeconds == 3

(* Program constants *)

SecondsPerDay == 86400
MaxBatch == 50
DefaultDays == 30

----------------------------------------------------------------------------
(* Inputs *)

Procs == {1, 2}

Keys == {"0A1B-2C3D-4E5F-6071"}

KeyInputs == Keys \cup {""}

MachineInputs == {"", "M1", "M2"}

DaysInputs == 1..MaxDays

CountInputs == (-1)..MaxCount

EmailInputs == {"a@b.com"}

NotesInputs == {"batch"}

TickSecs == SecondsPerDay

Epoch == 2 * SecondsPerDay

MaxClock == Epoch + MaxTicks * TickSecs

MaxExpires == Epoch + MaxExtendDays * SecondsPerDay

Max(a, b) == IF a >= b THEN a ELSE b

Min(a, b) == IF a <= b THEN a ELSE b

----------------------------------------------------------------------------
(* The licenses table *)

Row(key, email, created, expires, notes) ==
    [license_key |-> key, machine_id |-> "", email |-> email,
     created_at |-> created, expires_at |-> expires, activated_at |-> 0,
     revoked |-> FALSE, notes |-> notes]

Select(table, key) == {r \in table : r.license_key = key}

KeysOf(table) == {r.license_key : r \in table}

TheRow(table, key) == CHOOSE r \in table : r.license_key = key

(* Faulty variant: the UPDATE of activate sets machine_id and leaves activated_at *)
UpdateActivateKeepsTime(table, key, machine, now) ==
    {IF r.license_key = key THEN [r EXCEPT !.machine_id = machine] ELSE r : r \in table}

(* UPDATE licenses SET machine_id = ?, activated_at = ? WHERE license_key = ? *)
UpdateActivate(table, key, machine, now) ==
    {IF r.license_key = key
        THEN [r EXCEPT !.machine_id = machine, !.activated_at = now]
        ELSE r : r \in table}

(* Faulty variant: the UPDATE of revoke without its WHERE clause *)
UpdateRevokeAll(table, key) == {[r EXCEPT !.revoked = TRUE] : r \in table}

(* Faulty variant: revoke as an upsert, which records a key it does not find *)
UpdateRevokeUpserts(table, key) ==
    IF \E r \in table : r.license_key = key
       THEN {IF r.license_key = key THEN [r EXCEPT !.revoked = TRUE] ELSE r : r \in table}
       ELSE table \cup {[Row(key, "", 0, 0, "") EXCEPT !.revoked = TRUE]}

(* UPDATE licenses SET revoked = 1 WHERE license_key = ? *)
UpdateRevoke(table, key) ==
    {IF r.license_key = key THEN [r EXCEPT !.revoked = TRUE] ELSE r : r \in table}

(* UPDATE licenses SET expires_at = ?, revoked = 0 WHERE license_key = ? *)
UpdateRenew(table, key, new_expires) ==
    {IF r.license_key = key
        THEN [r EXCEPT !.expires_at = new_expires, !.revoked = FALSE]
        ELSE r : r \in table}

(* Faulty variant: the UPDATE of unbind resets the revoked flag with the binding *)
UpdateUnbindClearsRevoked(table, key) ==
    {IF r.license_key = key
        THEN [r EXCEPT !.machine_id = "", !.activated_at = 0, !.revoked = FALSE]
        ELSE r : r \in table}

(* Faulty variant: the UPDATE of unbind clears machine_id and leaves activated_at *)
UpdateUnbindKeepsTime(table, key) ==
    {IF r.license_key = key THEN [r EXCEPT !.machine_id = ""] ELSE r : r \in table}

(* UPDATE licenses SET machine_id = '', activated_at = 0 WHERE license_key = ? *)
UpdateUnbind(table, key) ==
    {IF r.license_key = key
        THEN [r EXCEPT !.machine_id = "", !.activated_at = 0]
        ELSE r : r \in table}

----------------------------------------------------------------------------
(* Responses *)

NoResp == [op |-> "none"]

NoFrame == [key |-> ""]

DaysLeft(expires, now) == Max(0, expires - now) \div SecondsPerDay

Reject(op, key, machine, code, reason) ==
    [op |-> op, key |-> key, machine |-> machine, valid |-> FALSE,
     code |-> code, reason |-> reason]

Accept(op, key, machine, expires, now) ==
    [op |-> op, key |-> key, machine |-> machine, valid |-> TRUE,
     code |-> 200, reason |-> "OK", days_left |-> DaysLeft(expires, now)]

(* Faulty variant: activate without the check of the bound machine id *)
ActivateDecisionNoMachineCheck(rows, key, machine, now) ==
    IF key = "" \/ machine = "" THEN "MissingInput"
    ELSE IF rows = {} THEN "NotFound"
    ELSE LET row == CHOOSE r \in rows : TRUE IN
         IF row.revoked THEN "Revoked"
         ELSE IF row.expires_at < now THEN "Expired"
         ELSE "OK"

(* Faulty variant: activate without the check of the expiry *)
ActivateDecisionNoExpiryCheck(rows, key, machine, now) ==
    IF key = "" \/ machine = "" THEN "MissingInput"
    ELSE IF rows = {} THEN "NotFound"
    ELSE LET row == CHOOSE r \in rows : TRUE IN
         IF row.revoked THEN "Revoked"
         ELSE IF row.machine_id # "" /\ row.machine_id # machine THEN "MachineMismatch"
         ELSE "OK"

(* Faulty variant: activate checks the bound machine id before the expiry *)
ActivateDecisionMismatchFirst(rows, key, machine, now) ==
    IF key = "" \/ machine = "" THEN "MissingInput"
    ELSE IF rows = {} THEN "NotFound"
    ELSE LET row == CHOOSE r \in rows : TRUE IN
         IF row.revoked THEN "Revoked"
         ELSE IF row.machine_id # "" /\ row.machine_id # machine THEN "MachineMismatch"
         ELSE IF row.expires_at < now THEN "Expired"
         ELSE "OK"

(* Faulty variant: activate refuses a record that is bound, to whatever machine *)
ActivateDecisionRejectsBound(rows, key, machine, now) ==
    IF key = "" \/ machine = "" THEN "MissingInput"
    ELSE IF rows = {} THEN "NotFound"
    ELSE LET row == CHOOSE r \in rows : TRUE IN
         IF row.revoked THEN "Revoked"
         ELSE IF row.expires_at < now THEN "Expired"
         ELSE IF row.machine_id # "" THEN "MachineMismatch"
         ELSE "OK"

(* The checks activate makes on the row it read, in the order it makes them *)
ActivateDecision(rows, key, machine, now) ==
    IF key = "" \/ machine = "" THEN "MissingInput"
    ELSE IF rows = {} THEN "NotFound"
    ELSE LET row == CHOOSE r \in rows : TRUE IN
         IF row.revoked THEN "Revoked"
         ELSE IF row.expires_at < now THEN "Expired"
         ELSE IF row.machine_id # "" /\ row.machine_id # machine THEN "MachineMismatch"
         ELSE "OK"

(* Faulty variant: validate checks the expiry before the revoked flag *)
ValidateDecisionExpiryFirst(rows, key, machine, now) ==
    IF key = "" \/ machine = "" THEN "MissingInput"
    ELSE IF rows = {} THEN "NotFound"
    ELSE LET row == CHOOSE r \in rows : TRUE IN
         IF row.expires_at < now THEN "Expired"
         ELSE IF row.revoked THEN "Revoked"
         ELSE IF row.machine_id # machine THEN "MachineMismatch"
         ELSE "OK"

(* Faulty variant: validate with the machine check of activate, which lets an
   unbound record pass *)
ValidateDecisionUnboundPasses(rows, key, machine, now) ==
    IF key = "" \/ machine = "" THEN "MissingInput"
    ELSE IF rows = {} THEN "NotFound"
    ELSE LET row == CHOOSE r \in rows : TRUE IN
         IF row.revoked THEN "Revoked"
         ELSE IF row.expires_at < now THEN "Expired"
         ELSE IF row.machine_id # "" /\ row.machine_id # machine THEN "MachineMismatch"
         ELSE "OK"

(* The checks validate makes on the row it read, in the order it makes them *)
ValidateDecision(rows, key, machine, now) ==
    IF key = "" \/ machine = "" THEN "MissingInput"
    ELSE IF rows = {} THEN "NotFound"
    ELSE LET row == CHOOSE r \in rows : TRUE IN
         IF row.revoked THEN "Revoked"
         ELSE IF row.expires_at < now THEN "Expired"
         ELSE IF row.machine_id # machine THEN "MachineMismatch"
         ELSE "OK"

StatusOf(reason) ==
    CASE reason = "OK" -> 200
      [] reason = "MissingInput" -> 400
      [] reason = "NotFound" -> 404
      [] OTHER -> 403

----------------------------------------------------------------------------
Init ==
    /\ licenses = {}
    /\ clock = Epoch
    /\ pc = [p \in Procs |-> "idle"]
    /\ frame = [p \in Procs |-> NoFrame]
    /\ resp = NoResp

(* time.time() advances *)
Tick ==
    /\ clock < MaxClock
    /\ clock' = clock + TickSecs
    /\ resp' = NoResp
    /\ UNCHANGED <<licenses, pc, frame>>

(* Worker p takes the next request: the free worker of lowest number *)
Free(p) == pc[p] = "idle" /\ \A q \in Procs : pc[q] = "idle" => p <= q

(* Some worker can take a request *)
AnyFree == \E p \in Procs : pc[p] = "idle"

(* The handler sends the response r *)
Respond(r) == resp' = r

(* activate, lines 74-89: the SELECT and the checks on the row read *)
ActivateRead(p, key, machine) ==
    LET rows == Select(licenses, key)
        reason == ActivateDecision(rows, key, machine, clock)
    IN  /\ Free(p)
        /\ IF reason = "OK"
              THEN /\ pc' = [pc EXCEPT ![p] = "activate_update"]
                   /\ frame' = [frame EXCEPT ![p] =
                          [key |-> key, machine |-> machine, now |-> clock,
                           expires_at |-> TheRow(licenses, key).expires_at]]
                   /\ resp' = NoResp
              ELSE /\ Respond(Reject("activate", key, machine, StatusOf(reason), reason))
                   /\ UNCHANGED <<pc, frame>>
        /\ UNCHANGED <<licenses, clock>>

(* activate, lines 90-94: the UPDATE, the commit and the response *)
ActivateUpdate(p) ==
    /\ pc[p] = "activate_update"
    /\ licenses' = UpdateActivate(licenses, frame[p].key, frame[p].machine, frame[p].now)
    /\ Respond(Accept("activate", frame[p].key, frame[p].machine,
                         frame[p].expires_at, frame[p].now))
    /\ pc' = [pc EXCEPT ![p] = "idle"]
    /\ frame' = [frame EXCEPT ![p] = NoFrame]
    /\ UNCHANGED clock

(* validate: one SELECT, no write *)
Validate(key, machine) ==
    LET rows == Select(licenses, key)
        reason == ValidateDecision(rows, key, machine, clock)
    IN  /\ AnyFree
        /\ Respond(IF reason = "OK"
                   THEN Accept("validate", key, machine,
                               TheRow(licenses, key).expires_at, clock)
                   ELSE Reject("validate", key, machine, StatusOf(reason), reason))
        /\ UNCHANGED <<licenses, clock, pc, frame>>

(* count = min(data.get('count', 1), 50) *)
ClampCount(count) == Min(count, MaxBatch)

(* range(count): no iteration for a count below 1 *)
RangeLen(count) == Max(0, count)

(* Faulty variant: the INSERT loop on a table without the UNIQUE constraint *)
RECURSIVE InsertLoopNoUnique(_, _, _, _, _, _)
InsertLoopNoUnique(table, ks, email, now, expires, notes) ==
    IF ks = <<>> THEN [ok |-> TRUE, table |-> table]
    ELSE InsertLoopNoUnique(table \cup {Row(Head(ks), email, now, expires, notes)},
                            Tail(ks), email, now, expires, notes)

(* The INSERT loop of admin_generate on its open transaction: the UNIQUE
   constraint on license_key raises IntegrityError on a key already there. *)
RECURSIVE InsertLoop(_, _, _, _, _, _)
InsertLoop(table, ks, email, now, expires, notes) ==
    IF ks = <<>> THEN [ok |-> TRUE, table |-> table]
    ELSE IF Head(ks) \in KeysOf(table) THEN [ok |-> FALSE, table |-> table]
    ELSE InsertLoop(table \cup {Row(Head(ks), email, now, expires, notes)},
                    Tail(ks), email, now, expires, notes)

(* Faulty variant: every INSERT is committed at once, so the rows inserted
   before an IntegrityError stay *)
AdminGenerateAutocommit(countIn, days, email, notes, ks) ==
    LET count == ClampCount(countIn)
        expires == clock + days * SecondsPerDay
        done == InsertLoop(licenses, ks, email, clock, expires, notes)
    IN  /\ AnyFree
        /\ Len(ks) = RangeLen(count)
        /\ licenses' = done.table
        /\ IF done.ok
              THEN Respond([op |-> "generate", valid |-> TRUE, code |-> 200,
                            reason |-> "OK", keys |-> ks, days |-> days,
                            count |-> count])
              ELSE Respond([op |-> "generate", valid |-> FALSE, code |-> 500,
                            reason |-> "InternalError"])
        /\ UNCHANGED <<clock, pc, frame>>

(* admin_generate: ks are the keys generate_key() draws, one per iteration.
   An IntegrityError leaves the handler before db.commit(); close_db then
   closes the connection and the open transaction is rolled back. *)
AdminGenerate(countIn, days, email, notes, ks) ==
    LET count == ClampCount(countIn)
        expires == clock + days * SecondsPerDay
        done == InsertLoop(licenses, ks, email, clock, expires, notes)
    IN  /\ AnyFree
        /\ Len(ks) = RangeLen(count)
        /\ IF done.ok
              THEN /\ licenses' = done.table
                   /\ Respond([op |-> "generate", valid |-> TRUE, code |-> 200,
                                  reason |-> "OK", keys |-> ks, days |-> days,
                                  count |-> count])
              ELSE /\ UNCHANGED licenses
                   /\ Respond([op |-> "generate", valid |-> FALSE, code |-> 500,
                                  reason |-> "InternalError"])
        /\ UNCHANGED <<clock, pc, frame>>

AdminResult(op, key, found) ==
    [op |-> op, key |-> key, machine |-> "", valid |-> found,
     code |-> IF found THEN 200 ELSE 404,
     reason |-> IF found THEN "OK" ELSE "NotFound"]

(* admin_revoke: one UPDATE; cur.rowcount tells whether the key was there *)
AdminRevoke(key) ==
    /\ AnyFree
    /\ licenses' = UpdateRevoke(licenses, key)
    /\ Respond(AdminResult("revoke", key, Select(licenses, key) # {}))
    /\ UNCHANGED <<clock, pc, frame>>

(* admin_unbind: one UPDATE *)
AdminUnbind(key) ==
    /\ AnyFree
    /\ licenses' = UpdateUnbind(licenses, key)
    /\ Respond(AdminResult("unbind", key, Select(licenses, key) # {}))
    /\ UNCHANGED <<clock, pc, frame>>

(* Faulty variant: renew counts from now, whatever the current expiry *)
NewExpiresFromNow(now, expires, days) == now + days * SecondsPerDay

(* new_expires = max(time.time(), row['expires_at']) + days * 86400 *)
NewExpires(now, expires, days) == Max(now, expires) + days * SecondsPerDay

(* admin_renew, lines 157-165: the SELECT and the new expiry computed from it *)
AdminRenewRead(p, key, days) ==
    LET rows == Select(licenses, key) IN
    /\ Free(p)
    /\ IF rows = {}
          THEN /\ Respond(AdminResult("renew", key, FALSE))
               /\ UNCHANGED <<pc, frame>>
          ELSE LET row == CHOOSE r \in rows : TRUE IN
               /\ NewExpires(clock, row.expires_at, days) <= MaxExpires
               /\ pc' = [pc EXCEPT ![p] = "renew_update"]
               /\ frame' = [frame EXCEPT ![p] =
                      [key |-> key, days |-> days,
                       new_expires |-> NewExpires(clock, row.expires_at, days)]]
               /\ resp' = NoResp
    /\ UNCHANGED <<licenses, clock>>

(* admin_renew, lines 166-169: the UPDATE, the commit and the response *)
AdminRenewUpdate(p) ==
    /\ pc[p] = "renew_update"
    /\ licenses' = UpdateRenew(licenses, frame[p].key, frame[p].new_expires)
    /\ Respond(AdminResult("renew", frame[p].key, TRUE))
    /\ pc' = [pc EXCEPT ![p] = "idle"]
    /\ frame' = [frame EXCEPT ![p] = NoFrame]
    /\ UNCHANGED clock

(* One entry of admin_list *)
ListEntry(r, now) ==
    [license_key |-> r.license_key, machine_id |-> r.machine_id, email |-> r.email,
     days_left |-> DaysLeft(r.expires_at, now),
     activated |-> (r.activated_at # 0), revoked |-> r.revoked, notes |-> r.notes]

(* ORDER BY created_at DESC: the order of rows of equal created_at is not fixed *)
NewestFirst(table) ==
    {s \in [1..Cardinality(table) -> table] :
        /\ \A i, j \in DOMAIN s : i # j => s[i] # s[j]
        /\ \A i, j \in DOMAIN s : i < j => s[i].created_at >= s[j].created_at}

(* admin_list: one SELECT, no write *)
AdminList ==
    /\ AnyFree
    /\ \E rows \in NewestFirst(licenses) :
          Respond([op |-> "list", valid |-> TRUE, code |-> 200, reason |-> "OK",
                      licenses |-> [i \in DOMAIN rows |-> ListEntry(rows[i], clock)],
                      total |-> Cardinality(licenses)])
    /\ UNCHANGED <<licenses, clock, pc, frame>>

(* The keys generate_key() can draw in one request of the given count *)
KeyDraws(countIn) == [1..RangeLen(ClampCount(countIn)) -> Keys]

Next ==
    \/ Tick
    \/ \E p \in Procs, k \in KeyInputs, m \in MachineInputs : ActivateRead(p, k, m)
    \/ \E p \in Procs : ActivateUpdate(p)
    \/ \E k \in KeyInputs, m \in MachineInputs : Validate(k, m)
    \/ \E c \in CountInputs, d \in DaysInputs, e \in EmailInputs, n \in NotesInputs :
          \E ks \in KeyDraws(c) : AdminGenerate(c, d, e, n, ks)
    \/ \E k \in KeyInputs : AdminRevoke(k)
    \/ \E k \in KeyInputs : AdminUnbind(k)
    \/ \E p \in Procs, k \in KeyInputs, d \in DaysInputs : AdminRenewRead(p, k, d)
    \/ \E p \in Procs : AdminRenewUpdate(p)
    \/ AdminList

Spec == Init /\ [][Next]_vars

----------------------------------------------------------------------------
(* The store with several keys: the same handlers, with requests that name
   one of two keys and batches of up to two keys drawn by generate_key(),
   over a stretch in which the clock reads the same. *)

StoreKeys == Keys \cup {"89AB-CDEF-0123-4567"}

StoreMachines == {"M1"}

StoreCounts == {1, 2}

(* The keys generate_key() can draw in one request, among StoreKeys *)
StoreDraws(countIn) == [1..RangeLen(ClampCount(countIn)) -> StoreKeys]

StoreNext ==
    \/ \E p \in Procs, k \in StoreKeys, m \in StoreMachines : ActivateRead(p, k, m)
    \/ \E p \in Procs : ActivateUpdate(p)
    \/ \E k \in StoreKeys, m \in StoreMachines : Validate(k, m)
    \/ \E c \in StoreCounts, d \in DaysInputs, e \in EmailInputs, n \in NotesInputs :
          \E ks \in StoreDraws(c) : AdminGenerate(c, d, e, n, ks)
    \/ \E k \in StoreKeys : AdminRevoke(k)
    \/ \E k \in StoreKeys : AdminUnbind(k)
    \/ \E p \in Procs, k \in StoreKeys, d \in DaysInputs : AdminRenewRead(p, k, d)
    \/ \E p \in Procs : AdminRenewUpdate(p)
    \/ AdminList

SpecStore == Init /\ [][StoreNext]_vars

----------------------------------------------------------------------------
(* A batch and its listing: generate with count 3 and the default 30 days,
   admin_list, and the seconds that time.time() advances between the
   requests.  Here resp is the last response sent: the passing of time
   leaves it. *)

ListKeys == StoreKeys \cup {"4567-89AB-CDEF-0123"}

ListCounts == {3}

ListDays == {DefaultDays}

(* The keys generate_key() can draw in one request, among ListKeys *)
ListDraws(countIn) == [1..RangeLen(ClampCount(countIn)) -> ListKeys]

(* time.time() reads a second later *)
Elapse ==
    /\ clock < Epoch + MaxSeconds
    /\ clock' = clock + 1
    /\ UNCHANGED <<licenses, pc, frame, resp>>

ListNext ==
    \/ Elapse
    \/ \E c \in ListCounts, d \in ListDays, e \in EmailInputs, n \in NotesInputs :
          \E ks \in ListDraws(c) : AdminGenerate(c, d, e, n, ks)
    \/ AdminList

SpecList == Init /\ [][ListNext]_vars

----------------------------------------------------------------------------
(* Vocabulary of the claims *)

Exists(key) == Select(licenses, key) # {}

Expired(r, now) == r.expires_at < now

(* The machine ids a request can supply: non-empty after strip() *)
Supplied == MachineInputs \ {""}

BoundToOther(r, machine) == r.machine_id # "" /\ r.machine_id # machine

(* The step is the SELECT and checks of an activate of process p: it sends a
   response of activate, or p goes on to its UPDATE *)
ActivateStep(p) ==
    pc[p] = "idle" /\ (resp'.op = "activate" \/ pc'[p] = "activate_update")

(* The step is the SELECT of an admin_renew of process p: it sends the
   not-found response or goes on to the update *)
RenewStep(p) ==
    pc[p] = "idle" /\ (resp'.op = "renew" \/ pc'[p] = "renew_update")

(* The step is a validate *)
ValidateStep == resp'.op = "validate"

----------------------------------------------------------------------------
(* C1: two activates of one unbound key with different machine ids are
   serialized, so exactly one of them returns success: an activate returns
   success and writes its binding only on a record that, when it writes, is
   unbound or bound to its own machine id; the activate that comes second is
   rejected with MachineMismatch. *)
C1_ActivateSerialized ==
    [][\A p \in Procs :
          (ActivateUpdate(p) /\ resp'.valid)
          => ~BoundToOther(TheRow(licenses, frame[p].key), frame[p].machine)]_vars

(* C2: a rejected activate changes no field of any record; an activate that
   supplies a machine id other than the one the record is bound to is
   rejected (with MachineMismatch when the record is neither revoked nor
   expired) and the record keeps its machine_id and activated_at. *)
C2_RejectedActivateNoWrite ==
    [][/\ (resp'.op = "activate" /\ ~resp'.valid) => licenses' = licenses
       /\ \A k \in Keys :
             (Exists(k) /\ TheRow(licenses, k).machine_id # "")
             => \A p \in Procs, m \in Supplied \ {TheRow(licenses, k).machine_id} :
                   (ActivateStep(p) /\ ActivateRead(p, k, m))
                   => /\ resp'.op = "activate" /\ ~resp'.valid
                      /\ pc'[p] = "idle"
                      /\ resp'.reason \in {"Revoked", "Expired", "MachineMismatch"}
                      /\ (/\ ~TheRow(licenses, k).revoked
                          /\ ~Expired(TheRow(licenses, k), clock))
                         => resp'.reason = "MachineMismatch"
                      /\ TheRow(licenses', k) = TheRow(licenses, k)]_vars

C2_Witness ==
    /\ resp.op = "activate"
    /\ resp.reason = "MachineMismatch"
    /\ \E r \in licenses :
          /\ r.license_key = resp.key
          /\ BoundToOther(r, resp.machine)
          /\ r.activated_at # 0

(* C3: an activate with machine id M1 of an existing unbound, non-revoked,
   unexpired key passes its checks and returns success, and its update sets
   machine_id = M1 and activated_at = the activate's now; when that update
   lands on the record still unbound, non-revoked and unexpired, validate
   with M1 then succeeds and validate with any other machine id is rejected
   with MachineMismatch. *)
C3_ActivateThenValidate ==
    [][/\ \A k \in Keys :
             (/\ Exists(k)
              /\ TheRow(licenses, k).machine_id = ""
              /\ ~TheRow(licenses, k).revoked
              /\ ~Expired(TheRow(licenses, k), clock))
             => \A p \in Procs, m \in Supplied :
                   (ActivateStep(p) /\ ActivateRead(p, k, m))
                   => /\ pc'[p] = "activate_update"
                      /\ frame'[p].key = k
                      /\ frame'[p].machine = m
                      /\ frame'[p].now = clock
       /\ \A p \in Procs :
             (pc[p] = "activate_update" /\ ActivateUpdate(p))
             => LET k == frame[p].key
                    m == frame[p].machine
                    old == TheRow(licenses, k)
                    new == TheRow(licenses', k)
                IN  /\ resp'.op = "activate" /\ resp'.valid /\ resp'.machine = m
                    /\ new.machine_id = m
                    /\ new.activated_at = frame[p].now
                    /\ (old.machine_id = "" /\ ~old.revoked /\ ~Expired(old, clock))
                       => \A m2 \in Supplied :
                             ValidateDecision(Select(licenses', k), k, m2, clock') =
                                 IF m2 = m THEN "OK" ELSE "MachineMismatch"]_vars

C3_Witness ==
    /\ resp.op = "validate"
    /\ resp.valid
    /\ resp.machine = "M1"
    /\ \E r \in licenses :
          /\ r.license_key = resp.key
          /\ r.machine_id = "M1"
          /\ r.activated_at = clock
          /\ r.created_at < clock

(* C4: once revoke has set revoked on a record, every activate and every
   validate that supplies a machine id is rejected with Revoked, whatever
   the binding and the expiry; the record stays revoked until a renew
   writes; and right after a renew has written on a revoked record bound to
   M, validate with M succeeds if the clock is not past the new expires_at. *)
C4_RevokedUntilRenew ==
    [][/\ \A k \in Keys :
             (resp'.op = "revoke" /\ Exists(k) /\ AdminRevoke(k))
             => TheRow(licenses', k).revoked /\ resp'.valid
       /\ \A k \in Keys :
             (Exists(k) /\ TheRow(licenses, k).revoked)
             => /\ \A p \in Procs, m \in Supplied :
                      (ActivateStep(p) /\ ActivateRead(p, k, m))
                      => /\ resp'.op = "activate"
                         /\ resp'.reason = "Revoked"
                         /\ pc' = pc
                /\ \A m \in Supplied :
                      (ValidateStep /\ Validate(k, m))
                      => resp'.op = "validate" /\ resp'.reason = "Revoked"
                /\ ~TheRow(licenses', k).revoked
                   => \E p \in Procs : AdminRenewUpdate(p) /\ frame[p].key = k
       /\ \A p \in Procs :
             (pc[p] = "renew_update" /\ AdminRenewUpdate(p))
             => LET k == frame[p].key
                    old == TheRow(licenses, k)
                    new == TheRow(licenses', k)
                IN  (old.revoked /\ old.machine_id # "" /\ ~Expired(new, clock'))
                    => ValidateDecision(Select(licenses', k), k, old.machine_id, clock')
                           = "OK"]_vars

C4_Witness ==
    /\ resp.op = "activate"
    /\ resp.reason = "Revoked"
    /\ \E r \in licenses :
          /\ r.license_key = resp.key
          /\ r.revoked
          /\ r.machine_id = resp.machine
          /\ ~Expired(r, clock)

(* C5: in every step a record's revoked flag goes from true to false only
   in the update of a renew of that key; the writes of activate, revoke,
   unbind and generate, and validate and list, never clear it. *)
C5_OnlyRenewClearsRevoked ==
    [][\A r \in licenses :
          (r.revoked /\ \E n \in licenses' : n.license_key = r.license_key /\ ~n.revoked)
          => \E p \in Procs :
                /\ pc[p] = "renew_update"
                /\ pc'[p] = "idle"
                /\ frame[p].key = r.license_key
                /\ resp'.op = "renew"]_vars

C5_Witness ==
    /\ resp.op = "unbind"
    /\ resp.valid
    /\ \E r \in licenses :
          /\ r.license_key = resp.key
          /\ r.revoked
          /\ r.machine_id = ""

(* C6: a renew with days d of an existing key computes, from the record it
   read and its now, expires_at + d * 86400 when the record is unexpired and
   now + d * 86400 when it is expired, whatever the record's machine_id and
   revoked flag; its update stores that value in expires_at, sets revoked to
   false and leaves the other fields. *)
C6_RenewExtends ==
    [][/\ \A k \in Keys :
             Exists(k)
             => \A p \in Procs, d \in DaysInputs :
                   (RenewStep(p) /\ AdminRenewRead(p, k, d))
                   => LET r == TheRow(licenses, k) IN
                      /\ pc'[p] = "renew_update"
                      /\ frame'[p].key = k
                      /\ frame'[p].new_expires =
                             IF Expired(r, clock) THEN clock + d * SecondsPerDay
                                                  ELSE r.expires_at + d * SecondsPerDay
       /\ \A p \in Procs :
             (pc[p] = "renew_update" /\ AdminRenewUpdate(p))
             => LET old == TheRow(licenses, frame[p].key)
                    new == TheRow(licenses', frame[p].key)
                IN  /\ resp'.op = "renew" /\ resp'.valid
                    /\ new = [old EXCEPT !.expires_at = frame[p].new_expires,
                                         !.revoked = FALSE]]_vars

C6_Witness ==
    /\ resp.op = "renew"
    /\ resp.valid
    /\ \E r \in licenses :
          /\ r.license_key = resp.key
          /\ r.machine_id # ""
          /\ r.created_at + 2 * SecondsPerDay = clock
          /\ r.expires_at = clock + SecondsPerDay

(* C7: two renews of one unexpired key with d1 and d2 days are serialized,
   so none of the two extensions is lost: the update of a renew with d days
   on a record that is unexpired when it writes leaves expires_at equal to
   the value it replaces plus d * 86400. *)
C7_RenewSerialized ==
    [][\A p \in Procs :
          (/\ pc[p] = "renew_update"
           /\ AdminRenewUpdate(p)
           /\ ~Expired(TheRow(licenses, frame[p].key), clock))
          => TheRow(licenses', frame[p].key).expires_at =
                 TheRow(licenses, frame[p].key).expires_at
                     + frame[p].days * SecondsPerDay]_vars

(* C8: on an existing, non-revoked record with expires_at < now, every
   activate and every validate that supplies a machine id is rejected with
   Expired, whether the record is unbound, bound to that machine id or bound
   to another, and the record is not modified. *)
C8_ExpiredRejected ==
    [][\A k \in Keys :
          (/\ Exists(k)
           /\ ~TheRow(licenses, k).revoked
           /\ Expired(TheRow(licenses, k), clock))
          => /\ \A p \in Procs, m \in Supplied :
                   (ActivateStep(p) /\ ActivateRead(p, k, m))
                   => /\ resp'.op = "activate"
                      /\ ~resp'.valid
                      /\ resp'.reason = "Expired"
                      /\ pc' = pc
                      /\ licenses' = licenses
             /\ \A m \in Supplied :
                   (ValidateStep /\ Validate(k, m))
                   => /\ resp'.op = "validate"
                      /\ ~resp'.valid
                      /\ resp'.reason = "Expired"
                      /\ licenses' = licenses]_vars

C8_Witness ==
    /\ resp.op = "activate"
    /\ resp.reason = "Expired"
    /\ \E r \in licenses :
          /\ r.license_key = resp.key
          /\ r.machine_id = resp.machine
          /\ ~r.revoked

(* C9: the response of a validate that supplies a key and a machine id is a
   success exactly when the record exists, is not revoked, is not expired
   and its machine_id equals the supplied one; on a record with empty
   machine_id (never activated, or unbound) it is never a success, and it is
   MachineMismatch when that record is neither revoked nor expired. *)
C9_ValidateExactly ==
    (resp.op = "validate" /\ resp.key # "" /\ resp.machine # "")
    => /\ resp.valid <=>
             /\ Exists(resp.key)
             /\ ~TheRow(licenses, resp.key).revoked
             /\ ~Expired(TheRow(licenses, resp.key), clock)
             /\ TheRow(licenses, resp.key).machine_id = resp.machine
       /\ resp.valid <=> resp.reason = "OK"
       /\ (Exists(resp.key) /\ TheRow(licenses, resp.key).machine_id = "")
          => /\ ~resp.valid
             /\ (/\ ~TheRow(licenses, resp.key).revoked
                 /\ ~Expired(TheRow(licenses, resp.key), clock))
                => resp.reason = "MachineMismatch"

C9_Witness ==
    /\ resp.op = "validate"
    /\ resp.reason = "MachineMismatch"
    /\ resp.machine # ""
    /\ \E r \in licenses :
          /\ r.license_key = resp.key
          /\ r.machine_id = ""
          /\ r.activated_at = 0
          /\ ~Expired(r, clock)

(* C10: unbind of an existing key, whatever its revoked flag and expiry,
   sets machine_id to empty and activated_at to 0 and leaves the other
   fields, and a second unbind changes nothing more; right after the unbind
   of a non-revoked, unexpired record that was bound to M1, an activate with
   any other machine id M2 passes its checks, and its update binds the
   record to M2. *)
C10_UnbindFreesBinding ==
    [][/\ \A k \in Keys :
             (resp'.op = "unbind" /\ Exists(k) /\ AdminUnbind(k))
             => LET old == TheRow(licenses, k)
                    new == TheRow(licenses', k)
                IN  /\ resp'.valid
                    /\ new = [old EXCEPT !.machine_id = "", !.activated_at = 0]
                    /\ UpdateUnbind(licenses', k) = licenses'
                    /\ (old.machine_id # "" /\ ~old.revoked /\ ~Expired(old, clock))
                       => \A m2 \in Supplied \ {old.machine_id} :
                             ActivateDecision(Select(licenses', k), k, m2, clock') = "OK"
       /\ \A k \in Keys :
             (/\ Exists(k)
              /\ TheRow(licenses, k).machine_id = ""
              /\ ~TheRow(licenses, k).revoked
              /\ ~Expired(TheRow(licenses, k), clock))
             => \A p \in Procs, m \in Supplied :
                   (ActivateStep(p) /\ ActivateRead(p, k, m))
                   => pc'[p] = "activate_update" /\ frame'[p].machine = m
       /\ \A p \in Procs :
             (pc[p] = "activate_update" /\ ActivateUpdate(p))
             => /\ TheRow(licenses', frame[p].key).machine_id = frame[p].machine
                /\ resp'.valid]_vars

C10_Witness ==
    /\ resp.op = "unbind"
    /\ resp.valid
    /\ \E r \in licenses :
          /\ r.license_key = resp.key
          /\ r.machine_id = ""
          /\ r.activated_at = 0
          /\ r.revoked
          /\ Expired(r, clock)

----------------------------------------------------------------------------
(* C11: generate clamps the requested count to [1,50]: every generate that
   succeeds creates exactly min(max(count,1),50) new records, all unbound,
   non-revoked, with the request's email and notes, created_at = now and
   expires_at = now + days*86400, and reports that number of keys. *)
C11_GenerateClamps ==
    [][\A c \in CountInputs, d \in DaysInputs, e \in EmailInputs, n \in NotesInputs :
          \A ks \in KeyDraws(c) :
             (resp'.op = "generate" /\ resp'.valid /\ AdminGenerate(c, d, e, n, ks))
             => LET new == licenses' \ licenses IN
                /\ Cardinality(new) = Min(Max(c, 1), MaxBatch)
                /\ resp'.count = Cardinality(new)
                /\ Len(resp'.keys) = Cardinality(new)
                /\ \A r \in new :
                      /\ r.machine_id = "" /\ r.activated_at = 0 /\ ~r.revoked
                      /\ r.email = e /\ r.notes = n
                      /\ r.created_at = clock
                      /\ r.expires_at = clock + d * SecondsPerDay]_vars

(* C12: in every state no two records have the same key, and every step
   keeps every record: a record with its key and its created_at is still
   there after the step, whatever operation the step is. *)
C12_KeysUniqueAndKept ==
    [][/\ \A r1, r2 \in licenses' : r1.license_key = r2.license_key => r1 = r2
       /\ \A r \in licenses :
             \E n \in licenses' :
                n.license_key = r.license_key /\ n.created_at = r.created_at
       /\ Cardinality(licenses') >= Cardinality(licenses)]_vars

C12_Witness ==
    /\ resp.op = "generate"
    /\ ~resp.valid
    /\ Cardinality(licenses) = 2
    /\ \E r \in licenses : r.machine_id # "" /\ r.revoked

(* C13: an activate with machine id M of a non-revoked, unexpired record
   already bound to M passes its checks, and its update returns success,
   leaves machine_id = M, sets activated_at to the activate's now and
   changes no other field; so the record stays bound to M however often
   this is repeated. *)
C13_ReactivateSameMachine ==
    [][/\ \A k \in Keys :
             (/\ Exists(k)
              /\ TheRow(licenses, k).machine_id # ""
              /\ ~TheRow(licenses, k).revoked
              /\ ~Expired(TheRow(licenses, k), clock))
             => \A p \in Procs :
                   (/\ ActivateStep(p)
                    /\ ActivateRead(p, k, TheRow(licenses, k).machine_id))
                   => /\ pc'[p] = "activate_update"
                      /\ frame'[p].key = k
                      /\ frame'[p].machine = TheRow(licenses, k).machine_id
                      /\ frame'[p].now = clock
                      /\ licenses' = licenses
       /\ \A p \in Procs :
             (pc[p] = "activate_update" /\ ActivateUpdate(p))
             => LET old == TheRow(licenses, frame[p].key)
                    new == TheRow(licenses', frame[p].key)
                IN  old.machine_id = frame[p].machine
                    => /\ resp'.op = "activate" /\ resp'.valid
                       /\ new = [old EXCEPT !.activated_at = frame[p].now]
                       /\ new.machine_id = old.machine_id]_vars

C13_Witness ==
    \E p \in Procs :
       /\ pc[p] = "activate_update"
       /\ Exists(frame[p].key)
       /\ TheRow(licenses, frame[p].key).machine_id = frame[p].machine
       /\ TheRow(licenses, frame[p].key).activated_at # 0
       /\ TheRow(licenses, frame[p].key).activated_at < frame[p].now

(* C14: after generate(count=3, days=30) on an empty store, the admin_list
   that is the next request shows exactly 3 entries with 3 distinct keys,
   each with activated = false, revoked = false and days_left = 30. *)
C14_ListAfterGenerate ==
    [][(/\ resp.op = "generate" /\ resp.valid
        /\ resp.count = 3 /\ resp.days = DefaultDays
        /\ Cardinality(licenses) = 3
        /\ resp'.op = "list"
        /\ AdminList)
       => /\ resp'.total = 3
          /\ Len(resp'.licenses) = 3
          /\ Cardinality({resp'.licenses[i].license_key : i \in 1..3}) = 3
          /\ \A i \in 1..3 :
                /\ ~resp'.licenses[i].activated
                /\ ~resp'.licenses[i].revoked
                /\ resp'.licenses[i].days_left = DefaultDays]_vars

(* C15: on a key that is not in the store, activate and validate (with a
   machine id), revoke, renew and unbind each answer NotFound (404), and the
   step leaves the table as it was: no record is created, none is changed. *)
C15_NotFound ==
    [][\A k \in StoreKeys :
          ~Exists(k)
          => /\ \A p \in Procs, m \in StoreMachines :
                   (ActivateStep(p) /\ ActivateRead(p, k, m))
                   => /\ resp'.op = "activate" /\ resp'.reason = "NotFound"
                      /\ resp'.code = 404 /\ ~resp'.valid
                      /\ pc' = pc
                      /\ licenses' = licenses
             /\ \A m \in StoreMachines :
                   (ValidateStep /\ Validate(k, m))
                   => /\ resp'.reason = "NotFound" /\ resp'.code = 404 /\ ~resp'.valid
                      /\ licenses' = licenses
             /\ (resp'.op = "revoke" /\ AdminRevoke(k))
                => /\ resp'.reason = "NotFound" /\ resp'.code = 404 /\ ~resp'.valid
                   /\ licenses' = licenses
             /\ (resp'.op = "unbind" /\ AdminUnbind(k))
                => /\ resp'.reason = "NotFound" /\ resp'.code = 404 /\ ~resp'.valid
                   /\ licenses' = licenses
             /\ \A p \in Procs, d \in DaysInputs :
                   (RenewStep(p) /\ AdminRenewRead(p, k, d))
                   => /\ resp'.op = "renew" /\ resp'.reason = "NotFound"
                      /\ resp'.code = 404 /\ ~resp'.valid
                      /\ pc' = pc
                      /\ licenses' = licenses]_vars

C15_Witness ==
    /\ resp.op = "revoke"
    /\ resp.reason = "NotFound"
    /\ resp.key \in StoreKeys \ KeysOf(licenses)
    /\ \E r \in licenses : r.machine_id # "" /\ ~r.revoked

(* C16: an activate is serialized with a revoke of the same key: once the
   revoke has committed revoked = true, no activate writes machine_id or
   activated_at on that record, and none returns success, until a renew
   clears the flag; so the update of an activate never lands on a record
   that is revoked when it writes. *)
C16_ActivateRevokeSerialized ==
    [][\A p \in Procs :
          (pc[p] = "activate_update" /\ ActivateUpdate(p))
          => /\ Exists(frame[p].key)
             /\ ~TheRow(licenses, frame[p].key).revoked]_vars

(* The keys whose record the step changes, and the fields of the record of
   key k that the step changes *)
Touched == {r.license_key : r \in licenses \ licenses'}

ChangedFields(k) ==
    {f \in DOMAIN TheRow(licenses, k) : TheRow(licenses, k)[f] # TheRow(licenses', k)[f]}

(* C17: a step of an operation on key K changes at most K's record, and in
   it at most the operation's own fields: machine_id and activated_at for
   activate and unbind, expires_at and revoked for renew, revoked for
   revoke, nothing for validate and list and for a request that is
   rejected; no step of these operations adds or removes a record. *)
C17_FrameEffects ==
    [][/\ resp'.op # "generate" => KeysOf(licenses') = KeysOf(licenses)
       /\ resp'.op \in {"validate", "list", "none"} => licenses' = licenses
       /\ (resp'.op \in {"activate", "renew", "revoke", "unbind"} /\ ~resp'.valid)
          => licenses' = licenses
       /\ resp'.op \in {"activate", "renew", "revoke", "unbind"}
          => /\ Touched \subseteq {resp'.key}
             /\ \A k \in Touched :
                   ChangedFields(k) \subseteq
                      CASE resp'.op = "activate" -> {"machine_id", "activated_at"}
                        [] resp'.op = "unbind" -> {"machine_id", "activated_at"}
                        [] resp'.op = "renew" -> {"expires_at", "revoked"}
                        [] resp'.op = "revoke" -> {"revoked"}]_vars

C17_Witness ==
    /\ resp.op = "renew"
    /\ resp.valid
    /\ \E r, o \in licenses :
          /\ r.license_key = resp.key
          /\ r.machine_id # ""
          /\ o.license_key # resp.key
          /\ o.revoked
          /\ o.machine_id # ""

(* C18: the answer of the checks of an activate, and of a validate, carries
   one reason, the first that applies in the order MissingInput (400),
   NotFound (404), Revoked, Expired, MachineMismatch (403): a record both
   revoked and expired gives Revoked, a record expired and bound to another
   machine gives Expired; an activate goes on to its update only when none
   applies.  The response names the key and machine id of its request. *)
C18_ReasonPrecedence ==
    [][/\ (resp'.op = "activate" /\ pc' = pc)
          => LET k == resp'.key
                 m == resp'.machine
             IN  IF k = "" \/ m = ""
                    THEN resp'.reason = "MissingInput" /\ resp'.code = 400
                 ELSE IF ~Exists(k)
                    THEN resp'.reason = "NotFound" /\ resp'.code = 404
                 ELSE IF TheRow(licenses, k).revoked
                    THEN resp'.reason = "Revoked" /\ resp'.code = 403
                 ELSE IF Expired(TheRow(licenses, k), clock)
                    THEN resp'.reason = "Expired" /\ resp'.code = 403
                 ELSE /\ BoundToOther(TheRow(licenses, k), m)
                      /\ resp'.reason = "MachineMismatch" /\ resp'.code = 403
       /\ \A p \in Procs :
             (pc[p] = "idle" /\ pc'[p] = "activate_update")
             => LET k == frame'[p].key
                    m == frame'[p].machine
                IN  /\ k # "" /\ m # ""
                    /\ Exists(k)
                    /\ ~TheRow(licenses, k).revoked
                    /\ ~Expired(TheRow(licenses, k), clock)
                    /\ ~BoundToOther(TheRow(licenses, k), m)
       /\ resp'.op = "validate"
          => LET k == resp'.key
                 m == resp'.machine
             IN  IF k = "" \/ m = ""
                    THEN resp'.reason = "MissingInput" /\ resp'.code = 400
                 ELSE IF ~Exists(k)
                    THEN resp'.reason = "NotFound" /\ resp'.code = 404
                 ELSE IF TheRow(licenses, k).revoked
                    THEN resp'.reason = "Revoked" /\ resp'.code = 403
                 ELSE IF Expired(TheRow(licenses, k), clock)
                    THEN resp'.reason = "Expired" /\ resp'.code = 403
                 ELSE IF TheRow(licenses, k).machine_id # m
                    THEN resp'.reason = "MachineMismatch" /\ resp'.code = 403
                 ELSE resp'.reason = "OK" /\ resp'.valid]_vars

C18_Witness ==
    /\ resp.op = "validate"
    /\ resp.reason = "Revoked"
    /\ \E r \in licenses :
          /\ r.license_key = resp.key
          /\ r.revoked
          /\ Expired(r, clock)
          /\ BoundToOther(r, resp.machine)

(* The drawn keys ks collide: one is in the table already, or is drawn twice *)
Collides(ks) ==
    \/ \E i \in DOMAIN ks : ks[i] \in KeysOf(licenses)
    \/ \E i, j \in DOMAIN ks : i # j /\ ks[i] = ks[j]

(* C19: generate is all-or-nothing: when a drawn key is already in the store
   or was drawn earlier in the batch, the request fails and the store is the
   same as before; otherwise the request succeeds and the store has gained
   one record per drawn key, count records in all. *)
C19_GenerateAllOrNothing ==
    [][resp'.op = "generate"
       => \A c \in StoreCounts, d \in DaysInputs, e \in EmailInputs, n \in NotesInputs :
             \A ks \in StoreDraws(c) :
                AdminGenerate(c, d, e, n, ks)
                => IF Collides(ks)
                      THEN /\ ~resp'.valid
                           /\ resp'.code = 500
                           /\ licenses' = licenses
                      ELSE /\ resp'.valid
                           /\ resp'.keys = ks
                           /\ licenses' =
                                 licenses \cup
                                    {Row(ks[i], e, clock, clock + d * SecondsPerDay, n) :
                                        i \in DOMAIN ks}
                           /\ Cardinality(licenses') = Cardinality(licenses) + c]_vars

C19_Witness ==
    /\ resp.op = "generate"
    /\ ~resp.valid
    /\ Cardinality(licenses) = 1
    /\ \E r \in licenses : r.machine_id # ""

====
